---------------------------- MODULE Spec2Model ----------------------------
(***************************************************************************)
(* A model of financial-tracker's main.go (the month-to-date version,      *)
(* src/main.go lines 488-1130): one sequential run that fetches the ledger *)
(* accounts, fetches the month's financial mutations in 7-day chunks,      *)
(* resolves the documents the payments refer to, aggregates amounts per    *)
(* ledger account, rolls the equity accounts up to their root categories   *)
(* and derives the family budget.                                          *)
(*                                                                         *)
(* Amounts are whole currency units (integers); the budget figures, which  *)
(* the code divides by 1.21, are exact rationals <<numerator,denominator>>.*)
(* Go's float64 rounding is not modelled.                                  *)
(***************************************************************************)
EXTENDS Integers, Sequences, FiniteSets, TLC

(***************************************************************************)
(* Bounds of the model.                                                    *)
(***************************************************************************)
\* Instants per calendar day (an instant is a day number times this, plus
\* the time of day).
TicksPerDay == 2

\* The last calendar day an input instant may fall on.
MaxDay == 16

\* Largest magnitude of an amount the budget calculator is fed.
MaxAmount == 2

(***************************************************************************)
(* Program constants.                                                      *)
(***************************************************************************)
\* chunkEnd := currentStart.AddDate(0, 0, 6)
ChunkSpan == 6

\* vatRate := 0.21 and incomeTaxRate := 0.30, in hundredths
VatRatePct == 21

IncomeTaxRatePct == 30

(***************************************************************************)
(* Maps (Go's map[string]T): functions with a finite domain.               *)
(***************************************************************************)
EmptyMap == << >>

\* m[k] = v
MapSet(m, k, v) ==
    IF k \in DOMAIN m THEN [m EXCEPT ![k] = v] ELSE m @@ (k :> v)

\* m[k] read with Go's zero value for a missing key
MapGet(m, k) == IF k \in DOMAIN m THEN m[k] ELSE 0

\* m[k] += v
MapAdd(m, k, v) == MapSet(m, k, MapGet(m, k) + v)

RECURSIVE SumOver(_, _)
\* the sum of f over the finite set S
SumOver(f, S) ==
    IF S = {} THEN 0
    ELSE LET x == CHOOSE y \in S : TRUE IN f[x] + SumOver(f, S \ {x})

\* the sum of the values of a map
MapSum(m) == SumOver(m, DOMAIN m)

(***************************************************************************)
(* Time.  time.Time values are instants; Format("2006-01-02") keeps the    *)
(* calendar day only.  All instants are in one location.                   *)
(***************************************************************************)
\* t.Format("2006-01-02"): the calendar day of instant t
FormatDate(t) == t \div TicksPerDay

\* t.AddDate(0, 0, n)
AddDate(t, n) == t + n * TicksPerDay

\* time.Date(y, m, d, 0, 0, 0, 0, loc): midnight of day d
Midnight(d) == d * TicksPerDay

(***************************************************************************)
(* fmt.Sscanf(text, "%f", &amount) on a text given as its characters: an   *)
(* optional sign, then digits; scanning stops at the first other           *)
(* character.  With no digit scanned the amount keeps its zero value.      *)
(***************************************************************************)
Digits == {"0", "1", "2", "3", "4", "5", "6", "7", "8", "9"}

DigitVal(c) ==
    CASE c = "0" -> 0 [] c = "1" -> 1 [] c = "2" -> 2 [] c = "3" -> 3
      [] c = "4" -> 4 [] c = "5" -> 5 [] c = "6" -> 6 [] c = "7" -> 7
      [] c = "8" -> 8 [] c = "9" -> 9

RECURSIVE ScanDigits(_, _, _)
\* the value of the longest run of digits of text from position i on,
\* continuing the value acc
ScanDigits(text, i, acc) ==
    IF i > Len(text) \/ text[i] \notin Digits THEN acc
    ELSE ScanDigits(text, i + 1, acc * 10 + DigitVal(text[i]))

Sscanf(text) ==
    IF text = << >> THEN 0
    ELSE IF text[1] = "-" THEN 0 - ScanDigits(text, 2, 0)
    ELSE IF text[1] = "+" THEN ScanDigits(text, 2, 0)
    ELSE ScanDigits(text, 1, 0)

(***************************************************************************)
(* Exact rationals <<n, d>> with d > 0, in lowest terms.                   *)
(***************************************************************************)
Abs(x) == IF x < 0 THEN 0 - x ELSE x

RECURSIVE GCD(_, _)
GCD(a, b) == IF b = 0 THEN a ELSE GCD(b, a % b)

Rat(n, d) ==
    LET s == IF d < 0 THEN 0 - 1 ELSE 1
        g == GCD(Abs(n), Abs(d))
    IN  <<(s * n) \div g, (s * d) \div g>>

RInt(x) == <<x, 1>>

\* the least common multiple of the denominators c, d
LCM(c, d) == (c \div GCD(c, d)) * d

RAdd(a, b) ==
    LET l == LCM(a[2], b[2])
    IN  Rat(a[1] * (l \div a[2]) + b[1] * (l \div b[2]), l)

RSub(a, b) == RAdd(a, <<0 - b[1], b[2]>>)

\* the common factors are taken out before the products are made
RMul(a, b) ==
    LET g == GCD(Abs(a[1]), b[2])
        h == GCD(Abs(b[1]), a[2])
    IN  Rat((a[1] \div g) * (b[1] \div h), (a[2] \div h) * (b[2] \div g))

\* a / b for b # 0
RDiv(a, b) == RMul(a, IF b[1] < 0 THEN <<0 - b[2], 0 - b[1]>> ELSE <<b[2], b[1]>>)

(***************************************************************************)
(* The program's state: the local variables of main() and what it has      *)
(* sent and written.                                                       *)
(***************************************************************************)
VARIABLES
    pc,                    \* the statement main() is at
    revenueArg,            \* the -revenue flag: << >> when absent, else <<v>>
    monthStart, monthEnd,  \* the period (instants)
    accounts, accountMap,  \* the ledger accounts, as listed and by ID
    allMutations,          \* the financial mutations fetched so far
    currentStart, chunkNum,\* the chunk loop
    calls,                 \* the upstream calls issued, in order
    omzetAccountID,        \* ID of the account "Omzet" of type revenue, or ""
    uniqueDocIDs,          \* the document IDs to fetch
    docIDs,                \* the same IDs as the slice handed to the fetches
    documentCache,         \* document ID -> details
    mutIdx, itemIdx,       \* the mutation and the booking/payment being processed
    totals,                \* ledger account ID -> amount
    typeGroups,            \* account type -> (account name -> amount)
    phase,                 \* "report" or "chart": which of the two roll-ups runs
    rootTotals,            \* root account name -> amount
    pending,               \* keys of totals the range loop has yet to visit
    curID, rootAcc,        \* the key being rolled up and the parent walk's cursor
    totalFamilyExpenses, totalRevenue, totalBusinessExpenses,
    budget,                \* the budget figures
    printedRoots,          \* the root categories in the order they were printed
    pieValues,             \* the chart's slices, in order
    output                 \* what the run has produced: report, chart, data file

inputVars == <<revenueArg, monthStart, monthEnd>>

fetchVars == <<accounts, accountMap, allMutations, currentStart, chunkNum>>

docVars == <<omzetAccountID, uniqueDocIDs, docIDs, documentCache>>

catVars == <<mutIdx, itemIdx, totals>>

rollVars == <<typeGroups, rootTotals, pending, curID, rootAcc, totalFamilyExpenses>>

budVars == <<totalRevenue, totalBusinessExpenses, budget>>

outVars == <<printedRoots, pieValues, output>>

vars == <<pc, calls, phase, inputVars, fetchVars, docVars, catVars, rollVars,
          budVars, outVars>>

(***************************************************************************)
(* Records.                                                                *)
(***************************************************************************)
\* type LedgerAccount; ParentID is a *string: << >> for nil, else <<id>>
LedgerAccount(id, name, type, parent) ==
    [ID |-> id, Name |-> name, AccountType |-> type, ParentID |-> parent]

\* the zero LedgerAccount
NoAccount == LedgerAccount("", "", "", << >>)

\* type LedgerAccountBooking
Booking(ledger, price) == [LedgerAccountID |-> ledger, Price |-> price]

\* type Payment
Payment(type, invoice, price, ledger) ==
    [InvoiceType |-> type, InvoiceID |-> invoice, Price |-> price,
     LedgerAccountID |-> ledger]

\* type FinancialMutation
Mutation(bookings, payments) ==
    [LedgerAccountBookings |-> bookings, Payments |-> payments]

\* type DocumentDetail
Detail(ledger, price) == [LedgerAccountID |-> ledger, Price |-> price]

\* type Document
Document(id, details) == [ID |-> id, Details |-> details]

\* the budget figures before they are calculated
NoBudget ==
    [revenueExclVAT |-> RInt(0), vatAmount |-> RInt(0), incomeTax |-> RInt(0),
     familyBudget |-> RInt(0), remaining |-> RInt(0),
     percentageUsed |-> [kind |-> "num", val |-> RInt(0)]]

\* manualRevenue := flag.Float64("revenue", 0, ...) after flag.Parse()
ManualRevenue == IF revenueArg = << >> THEN 0 ELSE revenueArg[1]

(***************************************************************************)
(* What the upstream API may answer in a whole run.                        *)
(***************************************************************************)
\* the last calendar day a whole run may take place on
MaxRunDay == 8

\* the -revenue flag of a whole run
RunRevenueArgs == {<< >>, <<1>>}

\* ledger account tables: with and without the account "Omzet", and
\* with a parent that is no ledger account
StdTable ==
    <<LedgerAccount("a1", "Omzet", "revenue", << >>),
      LedgerAccount("a2", "Kantoor", "expenses", << >>),
      LedgerAccount("a3", "Woning", "equity", << >>),
      LedgerAccount("a4", "Hypotheek", "equity", <<"a3">>)>>

RunTables ==
    {StdTable,
     <<LedgerAccount("a3", "Woning", "equity", <<"gone">>),
       LedgerAccount("a4", "Hypotheek", "equity", <<"a3">>)>>}

\* what one chunk may hold
RunChunks ==
    {<< >>,
     <<Mutation(<<Booking("a4", <<"-", "2">>)>>,
                <<Payment("ExternalSalesInvoice", "i2", <<"1">>, "a2")>>)>>,
     <<Mutation(<< >>,
                <<Payment("SalesInvoice", "i1", <<"3">>, "bank"),
                  Payment("ExternalSalesInvoice", "i3", <<"1">>, "")>>)>>,
     <<Mutation(<< >>, <<Payment("Document", "d1", <<"1">>, "bank")>>)>>}

\* what a document collection may hold
RunDocuments ==
    {<< >>, <<Document("d1", <<Detail("a2", <<"1">>)>>)>>}

(***************************************************************************)
(* main(): the flags are parsed and the period is set.  The period is the  *)
(* month to date: monthStart the first day's midnight, monthEnd now.       *)
(***************************************************************************)
NotFetched ==
    /\ accounts = << >>
    /\ accountMap = EmptyMap
    /\ allMutations = << >>
    /\ currentStart = 0
    /\ chunkNum = 0

NotResolved ==
    /\ omzetAccountID = ""
    /\ uniqueDocIDs = {}
    /\ docIDs = << >>
    /\ documentCache = EmptyMap

NotCategorized ==
    /\ mutIdx = 0
    /\ itemIdx = 0
    /\ totals = EmptyMap

NotRolledUp ==
    /\ typeGroups = EmptyMap
    /\ phase = "report"
    /\ rootTotals = EmptyMap
    /\ pending = {}
    /\ curID = ""
    /\ rootAcc = NoAccount
    /\ totalFamilyExpenses = 0
    /\ printedRoots = << >>

NotBudgeted ==
    /\ totalRevenue = 0
    /\ totalBusinessExpenses = 0
    /\ budget = NoBudget
    /\ pieValues = << >>

Init ==
    /\ pc = "accounts"
    /\ revenueArg \in RunRevenueArgs
    /\ monthStart = Midnight(1)
    /\ monthEnd \in Midnight(1) .. (Midnight(MaxRunDay + 1) - 1)
    /\ calls = << >>
    /\ output = {}
    /\ NotFetched /\ NotResolved /\ NotCategorized /\ NotRolledUp /\ NotBudgeted

(***************************************************************************)
(* 1. Fetching ledger accounts (lines 764-777).                            *)
(***************************************************************************)
\* res is what a call for documents returned
Call(op, arg) == [op |-> op, arg |-> arg, err |-> FALSE, res |-> << >>]

\* a call that returns an error
FailedCall(op, arg) == [op |-> op, arg |-> arg, err |-> TRUE, res |-> << >>]

\* a call for the documents of a collection that returns docs
DocumentsCall(docType, ids, docs) ==
    [Call("documents", <<docType, ids>>) EXCEPT !.res = docs]

\* accountMap[acc.ID] = acc for every account, in order
BuildAccountMap(accs) ==
    [id \in {accs[i].ID : i \in DOMAIN accs} |->
        LET last == CHOOSE i \in DOMAIN accs :
                        /\ accs[i].ID = id
                        /\ \A j \in DOMAIN accs : accs[j].ID = id => j <= i
        IN  accs[last]]

FetchAccountsOK(table) ==
    /\ pc = "accounts"
    /\ calls' = Append(calls, Call("ledger_accounts", << >>))
    /\ accounts' = table
    /\ accountMap' = BuildAccountMap(table)
    /\ currentStart' = monthStart
    /\ chunkNum' = 1
    /\ pc' = "chunks"
    /\ UNCHANGED <<phase, inputVars, allMutations, docVars, catVars, rollVars,
                   budVars, outVars>>

\* the fetch fails: os.Exit(1)
FetchAccountsFail ==
    /\ pc = "accounts"
    /\ calls' = Append(calls, FailedCall("ledger_accounts", << >>))
    /\ pc' = "exit"
    /\ UNCHANGED <<phase, inputVars, fetchVars, docVars, catVars, rollVars,
                   budVars, outVars>>

(***************************************************************************)
(* 2. Fetching the mutations in 7-day chunks (lines 779-812).              *)
(***************************************************************************)
\* a loop that leaves out the start that equals the end of the period
InPeriodStrict(start, end) == start < end

\* currentStart.Before(monthEnd) || currentStart.Equal(monthEnd)
InPeriod(start, end) == start < end \/ start = end

\* a chunk that is not cut to the end of the period
ChunkEndUncut(start, end) == AddDate(start, ChunkSpan)

\* chunkEnd := currentStart.AddDate(0, 0, 6), cut to monthEnd
ChunkEnd(start, end) ==
    LET chunkEnd == AddDate(start, ChunkSpan)
    IN  IF chunkEnd > end THEN end ELSE chunkEnd

\* currentStart = chunkEnd.AddDate(0, 0, 1)
NextStart(chunkEnd) == AddDate(chunkEnd, 1)

\* client.GetFinancialMutations(currentStart.Format(..), chunkEnd.Format(..))
ChunkCall ==
    Call("financial_mutations",
         <<FormatDate(currentStart), FormatDate(ChunkEnd(currentStart, monthEnd))>>)

ChunkFetchOK(mutations) ==
    /\ pc = "chunks"
    /\ InPeriod(currentStart, monthEnd)
    /\ calls' = Append(calls, ChunkCall)
    /\ allMutations' = allMutations \o mutations
    /\ currentStart' = NextStart(ChunkEnd(currentStart, monthEnd))
    /\ chunkNum' = chunkNum + 1
    /\ UNCHANGED <<pc, phase, inputVars, accounts, accountMap, docVars, catVars,
                   rollVars, budVars, outVars>>

\* a failed chunk that is left out of the mutations, the loop going on
ChunkFetchFailSkipped ==
    /\ pc = "chunks"
    /\ InPeriod(currentStart, monthEnd)
    /\ calls' = Append(calls, [ChunkCall EXCEPT !.err = TRUE])
    /\ currentStart' = NextStart(ChunkEnd(currentStart, monthEnd))
    /\ chunkNum' = chunkNum + 1
    /\ UNCHANGED <<pc, phase, inputVars, accounts, accountMap, allMutations,
                   docVars, catVars, rollVars, budVars, outVars>>

\* the fetch fails: os.Exit(1)
ChunkFetchFail ==
    /\ pc = "chunks"
    /\ InPeriod(currentStart, monthEnd)
    /\ calls' = Append(calls, [ChunkCall EXCEPT !.err = TRUE])
    /\ pc' = "exit"
    /\ UNCHANGED <<phase, inputVars, fetchVars, docVars, catVars, rollVars,
                   budVars, outVars>>

\* the loop's condition is false
ChunksDone ==
    /\ pc = "chunks"
    /\ ~InPeriod(currentStart, monthEnd)
    /\ pc' = "omzet"
    /\ UNCHANGED <<calls, phase, inputVars, fetchVars, docVars, catVars,
                   rollVars, budVars, outVars>>

(***************************************************************************)
(* 3. The revenue account and the documents (lines 814-871).               *)
(***************************************************************************)
\* the ID of the first account named "Omzet" of type revenue, "" if none
FindOmzetID(accs) ==
    LET hits == {i \in DOMAIN accs :
                    accs[i].Name = "Omzet" /\ accs[i].AccountType = "revenue"}
    IN  IF hits = {} THEN ""
        ELSE accs[CHOOSE i \in hits : \A j \in hits : i <= j].ID

FindOmzet ==
    /\ pc = "omzet"
    /\ omzetAccountID' = FindOmzetID(accounts)
    /\ pc' = "collect"
    /\ UNCHANGED <<calls, phase, inputVars, fetchVars, uniqueDocIDs, docIDs,
                   documentCache,
                   catVars, rollVars, budVars, outVars>>

\* the InvoiceID of every payment, of whatever type
DocumentIDsAnyType(mutations) ==
    UNION {{mutations[i].Payments[j].InvoiceID : j \in DOMAIN mutations[i].Payments} :
           i \in DOMAIN mutations}

\* the InvoiceID of every payment of type "Document"
DocumentIDs(mutations) ==
    UNION {{mutations[i].Payments[j].InvoiceID :
               j \in {k \in DOMAIN mutations[i].Payments :
                         mutations[i].Payments[k].InvoiceType = "Document"}} :
           i \in DOMAIN mutations}

\* for id := range uniqueDocIDs { docIDs = append(docIDs, id) }: the IDs of
\* the map in any order, each once
DocIDSlices(unique) ==
    {seq \in [1 .. Cardinality(unique) -> unique] :
        \A i, j \in 1 .. Cardinality(unique) : seq[i] = seq[j] => i = j}

\* first pass: collect the document IDs; position the run at the first
\* mutation when there is none to fetch
\* a collection that goes on to the fetches with no ID to ask for
CollectDocIDsAlwaysFetch ==
    /\ pc = "collect"
    /\ uniqueDocIDs' = DocumentIDs(allMutations)
    /\ docIDs' \in DocIDSlices(DocumentIDs(allMutations))
    /\ pc' = "purchase"
    /\ UNCHANGED <<calls, phase, inputVars, fetchVars, omzetAccountID,
                   documentCache, catVars, rollVars, budVars, outVars>>

CollectDocIDs ==
    /\ pc = "collect"
    /\ uniqueDocIDs' = DocumentIDs(allMutations)
    /\ docIDs' \in DocIDSlices(DocumentIDs(allMutations))
    /\ IF DocumentIDs(allMutations) # {}
         THEN pc' = "purchase" /\ UNCHANGED <<mutIdx, itemIdx>>
         ELSE pc' = "categorize" /\ mutIdx' = 1 /\ itemIdx' = 1
    /\ UNCHANGED <<calls, phase, inputVars, fetchVars, omzetAccountID,
                   documentCache, totals, rollVars, budVars, outVars>>

RECURSIVE CacheDocs(_, _, _)
\* documentCache[doc.ID] = doc.Details for every document with details,
\* from the i-th on
CacheDocs(cache, docs, i) ==
    IF i > Len(docs) THEN cache
    ELSE CacheDocs(IF Len(docs[i].Details) > 0
                     THEN MapSet(cache, docs[i].ID, docs[i].Details)
                     ELSE cache,
                   docs, i + 1)

\* client.GetDocumentsBatch(docIDs, "purchase_invoices") answers
FetchPurchaseOK(docs) ==
    /\ pc = "purchase"
    /\ calls' = Append(calls, DocumentsCall("purchase_invoices", docIDs, docs))
    /\ documentCache' = CacheDocs(documentCache, docs, 1)
    /\ pc' = "receipts"
    /\ UNCHANGED <<phase, inputVars, fetchVars, omzetAccountID, uniqueDocIDs,
                   docIDs, catVars, rollVars, budVars, outVars>>

\* a failed fetch of the purchase invoices that is tried again
FetchPurchaseFailRetry ==
    /\ pc = "purchase"
    /\ calls' = Append(calls, FailedCall("documents", <<"purchase_invoices", docIDs>>))
    /\ UNCHANGED <<pc, phase, inputVars, fetchVars, docVars, catVars, rollVars,
                   budVars, outVars>>

\* a failed fetch of the purchase invoices that ends the run
FetchPurchaseFailFatal ==
    /\ pc = "purchase"
    /\ calls' = Append(calls, FailedCall("documents", <<"purchase_invoices", docIDs>>))
    /\ pc' = "exit"
    /\ UNCHANGED <<phase, inputVars, fetchVars, docVars, catVars, rollVars,
                   budVars, outVars>>

\* ... or fails: the error is dropped
FetchPurchaseFail ==
    /\ pc = "purchase"
    /\ calls' = Append(calls, FailedCall("documents", <<"purchase_invoices", docIDs>>))
    /\ pc' = "receipts"
    /\ UNCHANGED <<phase, inputVars, fetchVars, docVars, catVars, rollVars,
                   budVars, outVars>>

\* client.GetDocumentsBatch(docIDs, "receipts") answers
FetchReceiptsOK(docs) ==
    /\ pc = "receipts"
    /\ calls' = Append(calls, DocumentsCall("receipts", docIDs, docs))
    /\ documentCache' = CacheDocs(documentCache, docs, 1)
    /\ pc' = "categorize"
    /\ mutIdx' = 1
    /\ itemIdx' = 1
    /\ UNCHANGED <<phase, inputVars, fetchVars, omzetAccountID, uniqueDocIDs,
                   docIDs, totals, rollVars, budVars, outVars>>

\* ... or fails: the error is dropped
FetchReceiptsFail ==
    /\ pc = "receipts"
    /\ calls' = Append(calls, FailedCall("documents", <<"receipts", docIDs>>))
    /\ pc' = "categorize"
    /\ mutIdx' = 1
    /\ itemIdx' = 1
    /\ UNCHANGED <<phase, inputVars, fetchVars, docVars, totals, rollVars,
                   budVars, outVars>>

(***************************************************************************)
(* The aggregation by ledger account (lines 873-918), one booking or       *)
(* payment a step.  itemIdx counts the mutation's bookings, then its       *)
(* payments.                                                               *)
(***************************************************************************)
AtMutation == pc = "categorize" /\ mutIdx <= Len(allMutations)

CurBookings == allMutations[mutIdx].LedgerAccountBookings

CurPayments == allMutations[mutIdx].Payments

AtBooking == AtMutation /\ itemIdx <= Len(CurBookings)

AtPayment ==
    /\ AtMutation
    /\ itemIdx > Len(CurBookings)
    /\ itemIdx <= Len(CurBookings) + Len(CurPayments)

CurBooking == CurBookings[itemIdx]

CurPayment == CurPayments[itemIdx - Len(CurBookings)]

\* a booking that replaces the total instead of adding to it
BookingTotalsSet(t, booking) ==
    MapSet(t, booking.LedgerAccountID, Sscanf(booking.Price))

\* totals[booking.LedgerAccountID] += amount
BookingTotals(t, booking) ==
    MapAdd(t, booking.LedgerAccountID, Sscanf(booking.Price))

\* totals[omzetAccountID] += amount
SalesInvoiceTotals(t, omzet, payment) == MapAdd(t, omzet, Sscanf(payment.Price))

\* a line item that is added instead of subtracted
DetailTotalsAdd(t, detail) ==
    IF detail.LedgerAccountID # ""
      THEN MapAdd(t, detail.LedgerAccountID, Sscanf(detail.Price))
      ELSE t

\* totals[detail.LedgerAccountID] -= detailAmount
DetailTotals(t, detail) ==
    IF detail.LedgerAccountID # ""
      THEN MapAdd(t, detail.LedgerAccountID, 0 - Sscanf(detail.Price))
      ELSE t

RECURSIVE DocumentTotals(_, _, _)
\* the loop over the details, from the i-th on
DocumentTotals(t, details, i) ==
    IF i > Len(details) THEN t
    ELSE DocumentTotals(DetailTotals(t, details[i]), details, i + 1)

\* other payment types use their ledger account
\* a payment of another type that is booked as revenue
OtherTotalsAsRevenue(t, payment) == MapAdd(t, omzetAccountID, Sscanf(payment.Price))

\* totals[payment.LedgerAccountID] += amount
OtherTotals(t, payment) == MapAdd(t, payment.LedgerAccountID, Sscanf(payment.Price))

Step(t) ==
    /\ totals' = t
    /\ itemIdx' = itemIdx + 1
    /\ UNCHANGED <<pc, calls, phase, inputVars, fetchVars, docVars, mutIdx,
                   rollVars, budVars, outVars>>

ProcessBooking ==
    /\ AtBooking
    /\ Step(BookingTotals(totals, CurBooking))

PaySalesInvoice ==
    /\ AtPayment
    /\ CurPayment.InvoiceType = "SalesInvoice"
    /\ Step(SalesInvoiceTotals(totals, omzetAccountID, CurPayment))

PayDocument ==
    /\ AtPayment
    /\ CurPayment.InvoiceType = "Document"
    /\ CurPayment.InvoiceID \in DOMAIN documentCache
    /\ Step(DocumentTotals(totals, documentCache[CurPayment.InvoiceID], 1))

\* skip if document not found
\* a payment of a missing document that falls back on its own account
PayDocumentMissingFallback ==
    /\ AtPayment
    /\ CurPayment.InvoiceType = "Document"
    /\ CurPayment.InvoiceID \notin DOMAIN documentCache
    /\ Step(MapAdd(totals, CurPayment.LedgerAccountID, Sscanf(CurPayment.Price)))

PayDocumentMissing ==
    /\ AtPayment
    /\ CurPayment.InvoiceType = "Document"
    /\ CurPayment.InvoiceID \notin DOMAIN documentCache
    /\ Step(totals)

PayOther ==
    /\ AtPayment
    /\ CurPayment.InvoiceType \notin {"SalesInvoice", "Document"}
    /\ CurPayment.LedgerAccountID # ""
    /\ Step(OtherTotals(totals, CurPayment))

PayOtherSkip ==
    /\ AtPayment
    /\ CurPayment.InvoiceType \notin {"SalesInvoice", "Document"}
    /\ CurPayment.LedgerAccountID = ""
    /\ Step(totals)

\* the mutation's bookings and payments are done
NextMutation ==
    /\ AtMutation
    /\ itemIdx > Len(CurBookings) + Len(CurPayments)
    /\ mutIdx' = mutIdx + 1
    /\ itemIdx' = 1
    /\ UNCHANGED <<pc, calls, phase, inputVars, fetchVars, docVars, totals,
                   rollVars, budVars, outVars>>

CategorizeDone ==
    /\ pc = "categorize"
    /\ mutIdx > Len(allMutations)
    /\ pc' = "group"
    /\ UNCHANGED <<calls, phase, inputVars, fetchVars, docVars, catVars,
                   rollVars, budVars, outVars>>

(***************************************************************************)
(* The monthly summary: grouping by account type (lines 920-930).  Go      *)
(* ranges over a map in an unspecified order, and the group is keyed by    *)
(* name: of the accounts of one type and name, any one's total may be the  *)
(* one that stays.                                                         *)
(***************************************************************************)
\* the keys of totals that are ledger accounts
Known(t, accMap) == DOMAIN t \cap DOMAIN accMap

\* the (type, name) pairs of the known keys
GroupKeys(t, accMap) ==
    {<<accMap[id].AccountType, accMap[id].Name>> : id \in Known(t, accMap)}

\* the known keys with this type and name
Members(t, accMap, key) ==
    {id \in Known(t, accMap) :
        <<accMap[id].AccountType, accMap[id].Name>> = key}

\* typeGroups when winner[key] is the key's member the range visits last
Grouped(t, accMap, winner) ==
    [ty \in {k[1] : k \in GroupKeys(t, accMap)} |->
        [nm \in {k[2] : k \in {g \in GroupKeys(t, accMap) : g[1] = ty}} |->
            t[winner[<<ty, nm>>]]]]

GroupByType ==
    /\ pc = "group"
    /\ \E winner \in [GroupKeys(totals, accountMap) -> Known(totals, accountMap)] :
          /\ \A key \in GroupKeys(totals, accountMap) :
                winner[key] \in Members(totals, accountMap, key)
          /\ typeGroups' = Grouped(totals, accountMap, winner)
    /\ output' = output \cup {"report"}
    /\ pc' = "family"
    /\ UNCHANGED <<calls, phase, inputVars, fetchVars, docVars, catVars, rootTotals,
                   pending, curID, rootAcc, totalFamilyExpenses, budVars,
                   printedRoots, pieValues>>

(***************************************************************************)
(* The roll-up of the equity accounts to their root categories: lines      *)
(* 932-965 for the report, and again lines 1047-1062 for the chart.        *)
(***************************************************************************)
\* if _, ok := typeGroups["equity"]; ok { rootTotals := make(...)
RollupStart ==
    /\ pc = "family"
    /\ "equity" \in DOMAIN typeGroups
    /\ rootTotals' = EmptyMap
    /\ pending' = DOMAIN totals
    /\ pc' = "range"
    /\ UNCHANGED <<calls, phase, inputVars, fetchVars, docVars, catVars, typeGroups,
                   curID, rootAcc, totalFamilyExpenses, budVars, outVars>>

\* no equity account has a total: the roll-up is skipped
RollupSkip ==
    /\ pc = "family"
    /\ "equity" \notin DOMAIN typeGroups
    /\ pc' = IF phase = "report" THEN "sums" ELSE "pie"
    /\ UNCHANGED <<calls, phase, inputVars, fetchVars, docVars, catVars, rollVars,
                   budVars, outVars>>

\* an account of the table, of whatever type
IsAccount(accMap, id) == id \in DOMAIN accMap

\* if acc, ok := accountMap[ledgerID]; ok && acc.AccountType == "equity"
IsEquity(accMap, id) == id \in DOMAIN accMap /\ accMap[id].AccountType = "equity"

\* the range visits an equity account: rootAcc := acc
RangeEquity(id) ==
    /\ pc = "range"
    /\ id \in pending
    /\ IsEquity(accountMap, id)
    /\ totalFamilyExpenses' =
          IF phase = "report" THEN totalFamilyExpenses + totals[id]
          ELSE totalFamilyExpenses
    /\ curID' = id
    /\ rootAcc' = accountMap[id]
    /\ pc' = "walk"
    /\ UNCHANGED <<calls, phase, inputVars, fetchVars, docVars, catVars, typeGroups,
                   rootTotals, pending, budVars, outVars>>

\* the range visits a key that is no equity account
RangeOther(id) ==
    /\ pc = "range"
    /\ id \in pending
    /\ ~IsEquity(accountMap, id)
    /\ pending' = pending \ {id}
    /\ UNCHANGED <<pc, calls, phase, inputVars, fetchVars, docVars, catVars,
                   typeGroups, rootTotals, curID, rootAcc, totalFamilyExpenses,
                   budVars, outVars>>

\* rootAcc.ParentID != nil && *rootAcc.ParentID != ""
HasParent(acc) == acc.ParentID # << >> /\ acc.ParentID[1] # ""

\* if parent, exists := accountMap[*rootAcc.ParentID]; exists
ParentExists(accMap, acc) == acc.ParentID[1] \in DOMAIN accMap

\* rootAcc = parent
WalkUp ==
    /\ pc = "walk"
    /\ HasParent(rootAcc)
    /\ ParentExists(accountMap, rootAcc)
    /\ rootAcc' = accountMap[rootAcc.ParentID[1]]
    /\ UNCHANGED <<pc, calls, phase, inputVars, fetchVars, docVars, catVars,
                   typeGroups, rootTotals, pending, curID, totalFamilyExpenses,
                   budVars, outVars>>

\* a roll-up that adds the total under the account's own name
AddToRootLeaf ==
    /\ rootTotals' = MapAdd(rootTotals, accountMap[curID].Name, totals[curID])
    /\ pending' = pending \ {curID}
    /\ curID' = ""
    /\ rootAcc' = NoAccount
    /\ pc' = "range"
    /\ UNCHANGED <<calls, phase, inputVars, fetchVars, docVars, catVars, typeGroups,
                   totalFamilyExpenses, budVars, outVars>>

\* rootTotals[rootAcc.Name] += total
AddToRoot ==
    /\ rootTotals' = MapAdd(rootTotals, rootAcc.Name, totals[curID])
    /\ pending' = pending \ {curID}
    /\ curID' = ""
    /\ rootAcc' = NoAccount
    /\ pc' = "range"
    /\ UNCHANGED <<calls, phase, inputVars, fetchVars, docVars, catVars, typeGroups,
                   totalFamilyExpenses, budVars, outVars>>

\* the account has no parent: it is the root
WalkRoot ==
    /\ pc = "walk"
    /\ ~HasParent(rootAcc)
    /\ AddToRoot

\* the parent is not in the account map: break
\* a break that drops the total instead of adding it to a root
WalkBreakDropped ==
    /\ pc = "walk"
    /\ HasParent(rootAcc)
    /\ ~ParentExists(accountMap, rootAcc)
    /\ pending' = pending \ {curID}
    /\ curID' = ""
    /\ rootAcc' = NoAccount
    /\ pc' = "range"
    /\ UNCHANGED <<calls, phase, inputVars, fetchVars, docVars, catVars, typeGroups,
                   rootTotals, totalFamilyExpenses, budVars, outVars>>

WalkBreak ==
    /\ pc = "walk"
    /\ HasParent(rootAcc)
    /\ ~ParentExists(accountMap, rootAcc)
    /\ AddToRoot

\* the sequences that list every element of S once
Orders(S) ==
    {seq \in [1 .. Cardinality(S) -> S] :
        \A i, j \in 1 .. Cardinality(S) : seq[i] = seq[j] => i = j}

\* for name, amount := range rootTotals { fmt.Printf(...) }
PrintRoots ==
    /\ pc = "range"
    /\ pending = {}
    /\ phase = "report"
    /\ \E order \in Orders(DOMAIN rootTotals) :
          printedRoots' = [i \in DOMAIN order |-> <<order[i], rootTotals[order[i]]>>]
    /\ pc' = "sums"
    /\ UNCHANGED <<calls, phase, inputVars, fetchVars, docVars, catVars, rollVars,
                   budVars, pieValues, output>>

(***************************************************************************)
(* Revenue and business expenses (lines 967-998).                          *)
(***************************************************************************)
\* the sum of the amounts of one type's group, 0 without the group
GroupTotal(groups, type) ==
    IF type \in DOMAIN groups THEN MapSum(groups[type]) ELSE 0

Sums ==
    /\ pc = "sums"
    /\ totalRevenue' = GroupTotal(typeGroups, "revenue")
    /\ totalBusinessExpenses' = GroupTotal(typeGroups, "expenses")
    /\ pc' = "override"
    /\ UNCHANGED <<calls, phase, inputVars, fetchVars, docVars, catVars, rollVars,
                   budget, outVars>>

(***************************************************************************)
(* The family budget (lines 1000-1030).                                    *)
(***************************************************************************)
\* if *manualRevenue > 0 { totalRevenue = *manualRevenue }
GrossRevenue(manual, computed) == IF manual > 0 THEN manual ELSE computed

ApplyOverride ==
    /\ pc = "override"
    /\ totalRevenue' = GrossRevenue(ManualRevenue, totalRevenue)
    /\ pc' = "budget"
    /\ UNCHANGED <<calls, phase, inputVars, fetchVars, docVars, catVars, rollVars,
                   totalBusinessExpenses, budget, outVars>>

VatRate == Rat(VatRatePct, 100)

IncomeTaxRate == Rat(IncomeTaxRatePct, 100)

\* the VAT taken as a share of the gross revenue
RevenueExclVATOfGross(revenue) == RMul(RInt(revenue), RSub(RInt(1), VatRate))

\* revenueExclVAT := totalRevenue / (1 + vatRate)
RevenueExclVAT(revenue) == RDiv(RInt(revenue), RAdd(RInt(1), VatRate))

\* incomeTax := revenueExclVAT * incomeTaxRate
IncomeTax(exclVAT) == RMul(exclVAT, IncomeTaxRate)

\* a family budget that takes the business expenses as a positive amount
FamilyBudgetLessExpenses(exclVAT, tax, expenses) ==
    RSub(RSub(exclVAT, tax), RInt(expenses))

\* familyBudget := revenueExclVAT - incomeTax + totalBusinessExpenses
FamilyBudget(exclVAT, tax, expenses) == RAdd(RSub(exclVAT, tax), RInt(expenses))

\* (totalFamilyExpenses / familyBudget) * 100 in float64: a division by
\* zero gives an infinity or, for 0/0, NaN
PercentageUsed(family, famBudget) ==
    IF famBudget[1] # 0
      THEN [kind |-> "num", val |-> RMul(RDiv(RInt(family), famBudget), RInt(100))]
    ELSE IF family > 0 THEN [kind |-> "+Inf", val |-> RInt(0)]
    ELSE IF family < 0 THEN [kind |-> "-Inf", val |-> RInt(0)]
    ELSE [kind |-> "NaN", val |-> RInt(0)]

BudgetFigures(revenue, expenses, family) ==
    LET exclVAT == RevenueExclVAT(revenue)
        tax == IncomeTax(exclVAT)
        famBudget == FamilyBudget(exclVAT, tax, expenses)
    IN  [revenueExclVAT |-> exclVAT,
         vatAmount |-> RSub(RInt(revenue), exclVAT),
         incomeTax |-> tax,
         familyBudget |-> famBudget,
         remaining |-> RAdd(famBudget, RInt(family)),
         percentageUsed |-> PercentageUsed(family, famBudget)]

CalculateBudget ==
    /\ pc = "budget"
    /\ budget' = BudgetFigures(totalRevenue, totalBusinessExpenses,
                               totalFamilyExpenses)
    /\ phase' = "chart"
    /\ pc' = "family"
    /\ UNCHANGED <<calls, inputVars, fetchVars, docVars, catVars, rollVars,
                   totalRevenue, totalBusinessExpenses, outVars>>

(***************************************************************************)
(* The pie chart and the data file (lines 1032-1130).                      *)
(***************************************************************************)
\* the slice for what is left of the budget, or for what is overspent
BudgetSlice(remaining) ==
    IF remaining[1] > 0 THEN <<[Label |-> "Remaining Budget", Value |-> remaining]>>
    ELSE IF remaining[1] < 0
      THEN <<[Label |-> "Over Budget", Value |-> RSub(RInt(0), remaining)]>>
    ELSE << >>

\* the root categories' slices in the order the range visits them, then
\* the budget's slice
BuildPie ==
    /\ phase = "chart"
    /\ \/ pc = "pie" /\ pieValues' = BudgetSlice(budget.remaining)
       \/ /\ pc = "range"
          /\ pending = {}
          /\ \E order \in Orders(DOMAIN rootTotals) :
                pieValues' =
                    [i \in DOMAIN order |->
                        [Label |-> order[i],
                         Value |-> RInt(0 - rootTotals[order[i]])]]
                    \o BudgetSlice(budget.remaining)
    /\ pc' = "render"
    /\ UNCHANGED <<calls, phase, inputVars, fetchVars, docVars, catVars, rollVars,
                   budVars, printedRoots, output>>

\* the chart file is created and rendered
RenderChart ==
    /\ pc = "render"
    /\ output' = output \cup {"chart"}
    /\ pc' = "save"
    /\ UNCHANGED <<calls, phase, inputVars, fetchVars, docVars, catVars, rollVars,
                   budVars, printedRoots, pieValues>>

\* os.Create or pie.Render fails: the error is printed and the run goes on
RenderFail ==
    /\ pc = "render"
    /\ pc' = "save"
    /\ UNCHANGED <<calls, phase, inputVars, fetchVars, docVars, catVars, rollVars,
                   budVars, outVars>>

\* os.WriteFile(filename, detailedJSON, 0644)
SaveData ==
    /\ pc = "save"
    /\ output' = output \cup {"datafile"}
    /\ pc' = "done"
    /\ UNCHANGED <<calls, phase, inputVars, fetchVars, docVars, catVars, rollVars,
                   budVars, printedRoots, pieValues>>

\* the write fails: a warning is printed
SaveFail ==
    /\ pc = "save"
    /\ pc' = "done"
    /\ UNCHANGED <<calls, phase, inputVars, fetchVars, docVars, catVars, rollVars,
                   budVars, outVars>>

(***************************************************************************)
(* The whole run.                                                          *)
(***************************************************************************)
Fetch ==
    \/ \E table \in RunTables : FetchAccountsOK(table)
    \/ FetchAccountsFail
    \/ \E mutations \in RunChunks : ChunkFetchOK(mutations)
    \/ ChunkFetchFail
    \/ ChunksDone

Resolve ==
    \/ FindOmzet
    \/ CollectDocIDs
    \/ \E docs \in RunDocuments : FetchPurchaseOK(docs)
    \/ FetchPurchaseFail
    \/ \E docs \in RunDocuments : FetchReceiptsOK(docs)
    \/ FetchReceiptsFail

Categorize ==
    \/ ProcessBooking
    \/ PaySalesInvoice
    \/ PayDocument
    \/ PayDocumentMissing
    \/ PayOther
    \/ PayOtherSkip
    \/ NextMutation
    \/ CategorizeDone

Rollup ==
    \/ RollupStart
    \/ RollupSkip
    \/ \E id \in pending : RangeEquity(id)
    \/ \E id \in pending : RangeOther(id)
    \/ WalkUp
    \/ WalkRoot
    \/ WalkBreak

Report ==
    \/ GroupByType
    \/ PrintRoots
    \/ Sums

Budget ==
    \/ ApplyOverride
    \/ CalculateBudget

Chart ==
    \/ BuildPie
    \/ RenderChart
    \/ RenderFail
    \/ SaveData
    \/ SaveFail

Next == Fetch \/ Resolve \/ Categorize \/ Rollup \/ Report \/ Budget \/ Chart

Spec == Init /\ [][Next]_vars

(***************************************************************************)
(* The period chunker on its own: the chunk loop from any period, the      *)
(* start a midnight as main() sets it, the end any instant, before the     *)
(* start included.                                                         *)
(***************************************************************************)
\* the last calendar day a period may start on
MaxStartDay == 3

\* what one chunk may hold
ChunkAnswers == {<< >>, <<Mutation(<<Booking("a4", <<"-", "2">>)>>, << >>)>>}

InitChunk ==
    /\ pc = "chunks"
    /\ revenueArg = << >>
    /\ monthStart \in {Midnight(d) : d \in 1 .. MaxStartDay}
    /\ monthEnd \in 0 .. (Midnight(MaxDay + 1) - 1)
    /\ calls = <<Call("ledger_accounts", << >>)>>
    /\ accounts = StdTable
    /\ accountMap = BuildAccountMap(StdTable)
    /\ allMutations = << >>
    /\ currentStart = monthStart
    /\ chunkNum = 1
    /\ output = {}
    /\ NotResolved /\ NotCategorized /\ NotRolledUp /\ NotBudgeted

NextChunk ==
    \/ \E mutations \in ChunkAnswers : ChunkFetchOK(mutations)
    \/ ChunkFetchFail
    \/ ChunksDone

SpecChunk == InitChunk /\ [][NextChunk]_vars

\* the GetFinancialMutations calls issued so far, in order
ChunkCalls == SelectSeq(calls, LAMBDA c : c.op = "financial_mutations")

\* the number of calendar days from the start date to the end date, both
\* included
PeriodDays == FormatDate(monthEnd) - FormatDate(monthStart) + 1

MaxMutations == 2

\* the most details a document has
MaxDetails == 2

\* the sequences over S of length at most n
SeqsUpTo(S, n) == UNION {[1 .. k -> S] : k \in 0 .. n}

\* an account named "Omzet" that is not of type revenue
NoOmzetTable ==
    <<LedgerAccount("a1", "Omzet", "expenses", << >>),
      LedgerAccount("a2", "Kantoor", "expenses", << >>),
      LedgerAccount("a3", "Woning", "equity", << >>)>>

CatTables == {StdTable, NoOmzetTable}

MutationShapes ==
    {Mutation(<<Booking("a1", <<"-", "2">>), Booking("", <<"1">>),
                Booking("a2", <<"x">>)>>, << >>),
     Mutation(<<Booking("a1", <<"1">>), Booking("a2", <<"-", "2">>)>>, << >>),
     Mutation(<< >>,
              <<Payment("SalesInvoice", "i1", <<"3">>, "bank"),
                Payment("Document", "d2", <<"1">>, "bank")>>),
     Mutation(<< >>, <<Payment("Document", "d1", <<"1">>, "bank")>>),
     Mutation(<<Booking("a2", <<"-", "2">>)>>,
              <<Payment("Document", "d1", <<"1">>, "bank"),
                Payment("ExternalSalesInvoice", "i2", <<"1">>, "a2"),
                Payment("ExternalSalesInvoice", "i3", <<"1">>, "")>>)}

DetailOptions ==
    {Detail("a1", <<"1">>), Detail("a2", <<"2">>), Detail("", <<"1">>),
     Detail("a1", <<"x">>)}

\* what a document collection may hold
DocAnswers ==
    {<< >>} \cup {<<Document("d1", details)>> :
                    details \in SeqsUpTo(DetailOptions, MaxDetails)}

InitCategorize ==
    /\ pc = "omzet"
    /\ revenueArg = << >>
    /\ monthStart = Midnight(1)
    /\ monthEnd = Midnight(1)
    /\ calls = <<Call("ledger_accounts", << >>), Call("financial_mutations", <<1, 1>>)>>
    /\ accounts \in CatTables
    /\ accountMap = BuildAccountMap(accounts)
    /\ allMutations \in SeqsUpTo(MutationShapes, MaxMutations)
    /\ currentStart = Midnight(2)
    /\ chunkNum = 2
    /\ output = {}
    /\ NotResolved /\ NotCategorized /\ NotRolledUp /\ NotBudgeted

\* what the purchase invoices answer here: nothing, or d1
PurchaseAnswers == {<< >>, <<Document("d1", <<Detail("a1", <<"1">>)>>)>>}

ResolveAny ==
    \/ FindOmzet
    \/ CollectDocIDs
    \/ \E docs \in PurchaseAnswers : FetchPurchaseOK(docs)
    \/ FetchPurchaseFail
    \/ \E docs \in DocAnswers : FetchReceiptsOK(docs)
    \/ FetchReceiptsFail

NextCategorize == ResolveAny \/ Categorize

SpecCategorize == InitCategorize /\ [][NextCategorize]_vars

\* the sum of the amounts of the details booked to account id
LineSum(details, id) ==
    SumOver([i \in DOMAIN details |-> Sscanf(details[i].Price)],
            {i \in DOMAIN details : details[i].LedgerAccountID = id})

\* the accounts the details name
LineAccounts(details) ==
    {details[i].LedgerAccountID : i \in DOMAIN details} \ {""}

\* C1: a payment of type "Document" whose document is in the cache lowers
\* the total of every account its details name by the sum of those details'
\* amounts (it creates the total if need be) and leaves every other total,
\* the one of the empty account ID included, as it is.
C1_DocumentSubtracts ==
    [][(AtPayment /\ CurPayment.InvoiceType = "Document"
          /\ CurPayment.InvoiceID \in DOMAIN documentCache) =>
          LET details == documentCache[CurPayment.InvoiceID]
          IN  /\ itemIdx' = itemIdx + 1
              /\ DOMAIN totals' = DOMAIN totals \cup LineAccounts(details)
              /\ \A id \in DOMAIN totals' :
                    totals'[id] =
                        IF id \in LineAccounts(details)
                          THEN MapGet(totals, id) - LineSum(details, id)
                          ELSE totals[id]]_vars

\* the details [(a1, 1), (a2, 2)] have lowered a1's total by 1 and a2's by 2
C1_Witness ==
    /\ pc = "categorize"
    /\ allMutations = <<Mutation(<< >>, <<Payment("Document", "d1", <<"1">>, "bank")>>)>>
    /\ documentCache = ("d1" :> <<Detail("a1", <<"1">>), Detail("a2", <<"2">>)>>)
    /\ mutIdx = 1
    /\ itemIdx = 2
    /\ totals = ("a1" :> (0 - 1)) @@ ("a2" :> (0 - 2))

\* no mutation has a payment
OnlyBookings == \A m \in DOMAIN allMutations : allMutations[m].Payments = << >>

\* the bookings of all mutations, as (mutation, booking) positions
BookingPlaces ==
    UNION {{<<m, b>> : b \in DOMAIN allMutations[m].LedgerAccountBookings} :
           m \in DOMAIN allMutations}

BookingAt(place) == allMutations[place[1]].LedgerAccountBookings[place[2]]

\* C2: with direct bookings only, the totals are, per account ID booked to,
\* the sum of the signed amounts booked to it, and there is no total for any
\* other ID.
C2_BookingsSum ==
    (pc = "group" /\ OnlyBookings) =>
        /\ DOMAIN totals = {BookingAt(place).LedgerAccountID : place \in BookingPlaces}
        /\ \A id \in DOMAIN totals :
              totals[id] =
                  SumOver([place \in BookingPlaces |-> Sscanf(BookingAt(place).Price)],
                          {place \in BookingPlaces :
                              BookingAt(place).LedgerAccountID = id})

\* a1 was booked 1 and -2 in two mutations, a2 was booked -2
C2_Witness ==
    /\ pc = "group"
    /\ OnlyBookings
    /\ Len(allMutations) = 2
    /\ totals = ("a1" :> (0 - 1)) @@ ("a2" :> (0 - 2)) @@ ("" :> 1)

\* C3 as claimed: a payment of type "SalesInvoice" raises the total of the
\* account named "Omzet" of type revenue by its amount and changes no other
\* total.
C3_SalesInvoiceToRevenue ==
    [][(AtPayment /\ CurPayment.InvoiceType = "SalesInvoice") =>
          \E i \in DOMAIN accounts :
              /\ accounts[i].Name = "Omzet"
              /\ accounts[i].AccountType = "revenue"
              /\ DOMAIN totals' = DOMAIN totals \cup {accounts[i].ID}
              /\ \A id \in DOMAIN totals' :
                    totals'[id] =
                        IF id = accounts[i].ID
                          THEN MapGet(totals, id) + Sscanf(CurPayment.Price)
                          ELSE totals[id]]_vars

(***************************************************************************)
(* The hierarchy aggregator on its own: the run from the end of the        *)
(* aggregation, with any of a family of account tables and totals.  The    *)
(* totals come from one mutation that books each amount directly.          *)
(***************************************************************************)
DigitText(n) == CHOOSE c \in Digits : DigitVal(c) = n

RECURSIVE DecText(_)
DecText(n) ==
    IF n < 10 THEN <<DigitText(n)>>
    ELSE Append(DecText(n \div 10), DigitText(n % 10))

\* the price field that holds the amount v
PriceText(v) == IF v < 0 THEN <<"-">> \o DecText(0 - v) ELSE DecText(v)

\* three accounts: any of them of type equity or not, in a chain, a tree, a
\* cycle, or with a parent that is empty or no ledger account; two roots
\* may share a name
RollupTables ==
    {<<LedgerAccount("a1", "Woning", t1, p1),
       LedgerAccount("a2", n2, t2, p2),
       LedgerAccount("a3", "Auto", t3, p3)>> :
        t1 \in {"equity", "expenses"}, t2 \in {"equity", "expenses"},
        t3 \in {"equity", "expenses"}, n2 \in {"Woning", "Auto"},
        p1 \in {<< >>, <<"">>, <<"gone">>, <<"a2">>},
        p2 \in {<< >>, <<"gone">>, <<"a1">>, <<"a3">>},
        p3 \in {<< >>, <<"a1">>, <<"a2">>}}

\* the keys a total may be under ("zz" is no ledger account), in the order
\* they are booked, and the amount of each
RollupKeys == <<"a1", "a2", "a3", "zz">>

RollupAmount ==
    ("a1" :> (0 - 1)) @@ ("a2" :> (0 - 2)) @@ ("a3" :> (0 - 4)) @@ ("zz" :> (0 - 8))

RollupTotals ==
    {[k \in keys |-> RollupAmount[k]] :
        keys \in SUBSET {RollupKeys[i] : i \in DOMAIN RollupKeys}}

\* one mutation that books t
BookingsOf(t, keys) ==
    <<Mutation(SelectSeq([i \in DOMAIN keys |-> Booking(keys[i], PriceText(MapGet(t, keys[i])))],
                         LAMBDA b : b.LedgerAccountID \in DOMAIN t),
               << >>)>>

\* the state once the mutations of one chunk, which book t, are aggregated
Aggregated(table, t, keys) ==
    /\ monthStart = Midnight(1)
    /\ monthEnd = Midnight(1)
    /\ calls = <<Call("ledger_accounts", << >>), Call("financial_mutations", <<1, 1>>)>>
    /\ accounts = table
    /\ accountMap = BuildAccountMap(table)
    /\ allMutations = BookingsOf(t, keys)
    /\ currentStart = Midnight(2)
    /\ chunkNum = 2
    /\ omzetAccountID = FindOmzetID(table)
    /\ uniqueDocIDs = {}
    /\ docIDs = << >>
    /\ documentCache = EmptyMap
    /\ mutIdx = 2
    /\ itemIdx = 1
    /\ totals = t

InitRollup ==
    /\ pc = "group"
    /\ revenueArg = << >>
    /\ \E table \in RollupTables, t \in RollupTotals : Aggregated(table, t, RollupKeys)
    /\ output = {}
    /\ NotRolledUp /\ NotBudgeted

NextRollup == GroupByType \/ Rollup \/ PrintRoots

SpecRollup == InitRollup /\ [][NextRollup]_vars

\* main() is one thread that always takes its next step
FairSpecRollup == SpecRollup /\ WF_vars(NextRollup)

\* the account's parent ID names a ledger account
Resolves(acc) ==
    /\ acc.ParentID \notin {<< >>, <<"">>}
    /\ acc.ParentID[1] \in DOMAIN accountMap

RECURSIVE ChainEnd(_, _)
\* the account n parents up from acc, or the first one before it whose
\* parent does not resolve
ChainEnd(acc, n) ==
    IF n = 0 \/ ~Resolves(acc) THEN acc
    ELSE ChainEnd(accountMap[acc.ParentID[1]], n - 1)

\* the account the parent chain of id ends at
RootOf(id) == ChainEnd(accountMap[id], Cardinality(DOMAIN accountMap))

\* every parent chain ends
Acyclic == \A id \in DOMAIN accountMap : ~Resolves(RootOf(id))

\* the equity accounts that have a total
EquityLeaves ==
    {id \in DOMAIN totals \cap DOMAIN accountMap :
        accountMap[id].AccountType = "equity"}

\* C5 as claimed: in an acyclic table, the root total under a root account's
\* name is that root's own total, if it has one, plus the totals of the
\* equity accounts whose parent chain ends at that root.
C5_RootTotalPerRoot ==
    (pc = "sums" /\ Acyclic) =>
        \A r \in DOMAIN accountMap :
            (~Resolves(accountMap[r]) /\ accountMap[r].Name \in DOMAIN rootTotals) =>
                rootTotals[accountMap[r].Name] =
                    MapGet(totals, r)
                    + SumOver(totals, {id \in EquityLeaves \ {r} : RootOf(id).ID = r})

\* C5 as amended: in an acyclic table, the root total under a name is the
\* sum of the totals of the equity accounts whose parent chain ends at a
\* root of that name, a root's own total counted only if the root is of
\* type equity; there is a root total for such names only.
C5_RootTotalPerName ==
    (pc = "sums" /\ Acyclic) =>
        /\ DOMAIN rootTotals = {RootOf(id).Name : id \in EquityLeaves}
        /\ \A name \in DOMAIN rootTotals :
              rootTotals[name] =
                  SumOver(totals, {id \in EquityLeaves : RootOf(id).Name = name})

\* Woning with its own -1 and its children's -2 and -4 sums to -7
C5_Witness ==
    /\ pc = "sums"
    /\ \A i \in DOMAIN accounts : accounts[i].AccountType = "equity"
    /\ accounts[1].ParentID = << >>
    /\ accounts[2].ParentID = <<"a1">>
    /\ accounts[3].ParentID = <<"a1">>
    /\ totals = [k \in {"a1", "a2", "a3"} |-> RollupAmount[k]]
    /\ rootTotals = ("Woning" :> (0 - 7))

\* C6 as claimed: the roll-up reaches its end whatever the account table,
\* a table with a cycle of parents included.
C6_WalkTerminates == <>(pc = "sums")

(***************************************************************************)
(* The budget calculator on its own: the run from the end of the report's  *)
(* roll-up, with any revenue, business expenses and family expenses, and   *)
(* with or without a -revenue argument.                                    *)
(***************************************************************************)
BudgetTable ==
    <<LedgerAccount("a1", "Omzet", "revenue", << >>),
      LedgerAccount("a2", "Kantoor", "expenses", << >>),
      LedgerAccount("a3", "Woning", "equity", << >>)>>

BudgetKeys == <<"a1", "a2", "a3">>

BudgetAmounts == (0 - MaxAmount) .. MaxAmount

\* the revenue of the documented run, -revenue=12850.20, in cents
BudgetRevenues == BudgetAmounts \cup {1285020}

\* business expenses of 2000.00, in cents
BudgetExpenses == BudgetAmounts \cup {0 - 200000}

BudgetRevenueArgs == {<< >>} \cup {<<v>> : v \in BudgetRevenues}

InitBudget ==
    /\ pc = "sums"
    /\ revenueArg \in BudgetRevenueArgs
    /\ \E r \in BudgetRevenues, e \in BudgetExpenses, f \in BudgetAmounts :
          /\ Aggregated(BudgetTable, ("a1" :> r) @@ ("a2" :> e) @@ ("a3" :> f),
                        BudgetKeys)
          /\ typeGroups = [type \in {"revenue", "expenses", "equity"} |->
                              CASE type = "revenue" -> ("Omzet" :> r)
                                [] type = "expenses" -> ("Kantoor" :> e)
                                [] type = "equity" -> ("Woning" :> f)]
          /\ rootTotals = ("Woning" :> f)
          /\ totalFamilyExpenses = f
          /\ printedRoots = <<<<"Woning", f>>>>
    /\ phase = "report"
    /\ pending = {}
    /\ curID = ""
    /\ rootAcc = NoAccount
    /\ output = {"report"}
    /\ NotBudgeted

NextBudget == Sums \/ ApplyOverride \/ CalculateBudget

SpecBudget == InitBudget /\ [][NextBudget]_vars

\* the budget is calculated
Budgeted == phase = "chart"

\* C9 as claimed: with a -revenue argument, the figures are those of the
\* argument's value, whatever the revenue the mutations sum to.
C9_OverrideWins ==
    (Budgeted /\ revenueArg # << >>) =>
        LET override == RInt(revenueArg[1])
        IN  /\ RMul(budget.revenueExclVAT, Rat(121, 100)) = override
            /\ RAdd(budget.vatAmount, budget.revenueExclVAT) = override
            /\ RMul(budget.incomeTax, Rat(100, 30)) = budget.revenueExclVAT

\* C10: the figures satisfy the budget formulas with a VAT rate of 21% and
\* an income tax rate of 30%, for every gross revenue, business expenses
\* and family expenses.
C10_BudgetFormulas ==
    Budgeted =>
        LET gross == RInt(totalRevenue)
            expenses == RInt(totalBusinessExpenses)
            family == RInt(totalFamilyExpenses)
        IN  /\ RMul(budget.revenueExclVAT, RAdd(RInt(1), Rat(21, 100))) = gross
            /\ budget.vatAmount = RSub(gross, budget.revenueExclVAT)
            /\ budget.incomeTax = RMul(budget.revenueExclVAT, Rat(30, 100))
            /\ budget.familyBudget =
                   RAdd(RSub(budget.revenueExclVAT, budget.incomeTax), expenses)
            /\ budget.remaining = RAdd(budget.familyBudget, family)
            /\ RSub(RAdd(RAdd(budget.vatAmount, budget.incomeTax),
                         budget.familyBudget), expenses) = gross

\* a gross revenue of 2 with expenses of -1 and -2: 200/121 without VAT
C10_Witness ==
    /\ Budgeted
    /\ totalRevenue = 2
    /\ totalBusinessExpenses = 0 - 1
    /\ totalFamilyExpenses = 0 - 2
    /\ budget.revenueExclVAT = Rat(200, 121)
    /\ budget.incomeTax = Rat(60, 121)

\* |a - x| <= tol for a rational a and integers x, tol
Within(a, x, tol) ==
    LET diff == RSub(a, RInt(x))
    IN  Abs(diff[1]) <= tol * diff[2]

\* the documented example, in cents: a gross revenue of 12850.20 and
\* business expenses of -2000.00
ExampleBudget ==
    /\ Budgeted
    /\ totalRevenue = 1285020
    /\ totalBusinessExpenses = 0 - 200000

\* C11 as claimed: for a gross revenue of 12850.20 and business expenses of
\* -2000.00 the revenue without VAT is 10619.17, the income tax 3185.75
\* and the family budget 5433.42, each within 0.01.
C11_ExampleAsStated ==
    ExampleBudget =>
        /\ Within(budget.revenueExclVAT, 1061917, 1)
        /\ Within(budget.incomeTax, 318575, 1)
        /\ Within(budget.familyBudget, 543342, 1)

\* C11 as amended: for a gross revenue of 12850.20 and business expenses of
\* -2000.00 the revenue without VAT is 10620.00, the income tax 3186.00
\* and the family budget 5434.00, each within 0.01.
C11_Example ==
    ExampleBudget =>
        /\ Within(budget.revenueExclVAT, 1062000, 1)
        /\ Within(budget.incomeTax, 318600, 1)
        /\ Within(budget.familyBudget, 543400, 1)

\* the example is calculated from the revenue the mutations sum to
C11_Witness == ExampleBudget /\ revenueArg = << >> /\ totals["a1"] = 1285020

\* the percentage is a number, not an infinity and not NaN
FinitePercentage == budget.percentageUsed.kind = "num"

\* C12 as claimed: with a family budget of zero the percentage used is not
\* the result of a division by it: it is never an infinity or NaN.
C12_NoDivisionByZero ==
    (Budgeted /\ budget.familyBudget = RInt(0)) => FinitePercentage

(***************************************************************************)
(* The whole run.                                                          *)
(***************************************************************************)
\* no loaded account is the revenue account "Omzet"
NoOmzetAccount ==
    \A i \in DOMAIN accounts :
        ~(accounts[i].Name = "Omzet" /\ accounts[i].AccountType = "revenue")

\* C4 as claimed: without the revenue account "Omzet" among the loaded
\* accounts the run stops: nothing is aggregated and there is no report,
\* no chart and no data file.
C4_NoOmzetStops == NoOmzetAccount => totals = EmptyMap /\ output = {}

\* the last call is a fetch of the ledger accounts or of a chunk that
\* returned an error
RequiredFetchFailed ==
    /\ calls # << >>
    /\ calls[Len(calls)].op \in {"ledger_accounts", "financial_mutations"}
    /\ calls[Len(calls)].err

\* the calls for a document collection
DocumentCalls == SelectSeq(calls, LAMBDA c : c.op = "documents")

\* C13: when the fetch of the ledger accounts or of a chunk fails the run
\* stops there: it takes no further step, so there is no later call, and
\* nothing is fetched of the documents, aggregated, printed or written.
C13_FatalFetchFailure ==
    [][/\ ~RequiredFetchFailed
       /\ RequiredFetchFailed' =>
             /\ DocumentCalls' = << >>
             /\ totals' = EmptyMap /\ mutIdx' = 0
             /\ output' = {}]_vars

\* the second chunk fails after the first one is fetched
C13_Witness ==
    /\ RequiredFetchFailed
    /\ Len(calls) = 3
    /\ ~calls[2].err /\ calls[2].op = "financial_mutations"
    /\ Len(allMutations) > 0

\* main() is one thread that always takes its next step; the steps from
\* the document fetches to the report are all that is needed here
FairSpec == Spec /\ WF_vars(Resolve \/ Categorize \/ Report)

\* the last call is a fetch of a document collection that returned an error
DocumentFetchFailed ==
    /\ calls # << >>
    /\ calls[Len(calls)].op = "documents"
    /\ calls[Len(calls)].err

\* the collections that were asked for, in the order of the calls
CollectionsCalled == [i \in DOMAIN DocumentCalls |-> DocumentCalls[i].arg[1]]

\* C14: a failed fetch of one document collection does not stop the run:
\* the failed fetch leaves the document cache as it was, the run goes on,
\* the other collection is asked for as well, and the report is printed.
C14_DocumentFailureNotFatal ==
    /\ [][DocumentFetchFailed' /\ Len(calls') > Len(calls) =>
             documentCache' = documentCache /\ pc' # "exit"]_vars
    /\ [](DocumentFetchFailed /\ pc = "categorize" =>
             CollectionsCalled = <<"purchase_invoices", "receipts">>)
    /\ (DocumentFetchFailed ~> "report" \in output)

\* the purchase invoices fail, the receipts answer a document, and the
\* report is printed
C14_Witness ==
    /\ Len(DocumentCalls) = 2
    /\ DocumentCalls[1].err /\ ~DocumentCalls[2].err
    /\ documentCache # EmptyMap
    /\ "report" \in output

\* the payments of all fetched mutations, as <<mutation, payment>> places
PaymentPlaces ==
    UNION {{<<i, j>> : j \in DOMAIN allMutations[i].Payments} :
              i \in DOMAIN allMutations}

\* the IDs that the payments of type "Document" refer to
ReferencedDocuments ==
    {allMutations[p[1]].Payments[p[2]].InvoiceID :
        p \in {q \in PaymentPlaces :
                  allMutations[q[1]].Payments[q[2]].InvoiceType = "Document"}}

\* the fetching of the documents is over and the run has not ended
DocumentsResolved ==
    pc \notin {"accounts", "chunks", "omzet", "collect", "purchase", "receipts", "exit"}

\* C15: with a payment of type "Document" among the mutations the run makes
\* exactly two document calls, for the purchase invoices and then for the
\* receipts, each with all the referenced IDs, however many there are;
\* without one it makes no document call.
C15_TwoBatchFetches ==
    /\ Len(DocumentCalls) <= 2
    /\ DocumentsResolved =>
          IF ReferencedDocuments = {}
            THEN DocumentCalls = << >>
            ELSE /\ Len(DocumentCalls) = 2
                 /\ DocumentCalls[1].arg[1] = "purchase_invoices"
                 /\ DocumentCalls[2].arg[1] = "receipts"
                 /\ \A c \in 1 .. 2 :
                       {DocumentCalls[c].arg[2][i] : i \in DOMAIN DocumentCalls[c].arg[2]}
                          = ReferencedDocuments

\* two payments refer to two documents and there are two calls
C15_Witness ==
    /\ DocumentsResolved
    /\ ReferencedDocuments = {"d1", "d2"}
    /\ Cardinality({p \in PaymentPlaces :
            allMutations[p[1]].Payments[p[2]].InvoiceType = "Document"}) = 2
    /\ Len(DocumentCalls) = 2

\* C16: a payment of type "Document" whose document is not in the cache
\* changes no total, neither by its own amount nor on its own account,
\* and the aggregation goes on with the next payment.
C16_MissingDocumentSkipped ==
    [][(AtPayment /\ CurPayment.InvoiceType = "Document"
          /\ CurPayment.InvoiceID \notin DOMAIN documentCache) =>
          /\ totals' = totals
          /\ pc' = "categorize"
          /\ mutIdx' = mutIdx /\ itemIdx' = itemIdx + 1]_vars

\* d1 is in the cache and the payment of d2 is passed: a1 holds only the
\* sales invoice of 3 and d1's detail, and nothing is on the payment's account
C16_Witness ==
    /\ pc = "categorize"
    /\ documentCache = ("d1" :> <<Detail("a2", <<"2">>)>>)
    /\ Len(allMutations) = 2
    /\ mutIdx = 2 /\ itemIdx = 3
    /\ Len(allMutations[2].Payments) = 2
    /\ allMutations[2].Payments[2].InvoiceType = "Document"
    /\ allMutations[2].Payments[2].InvoiceID = "d2"
    /\ totals = ("a2" :> (0 - 2)) @@ ("a1" :> 3)

(***************************************************************************)
(* The document resolver on its own: the run from the collection of the    *)
(* document IDs to the start of the aggregation, with any answer of the    *)
(* two collections for the documents d1 and d2.                            *)
(***************************************************************************)
\* the line items a returned document may have, none included
ResolveDetails ==
    {<< >>, <<Detail("a1", <<"1">>)>>, <<Detail("a2", <<"2">>)>>}

\* what a collection may return: nothing, d1, or d1 and d2
ResolveAnswers ==
    {<< >>}
    \cup {<<Document("d1", x)>> : x \in ResolveDetails}
    \cup {<<Document("d1", x), Document("d2", y)>> :
             x \in ResolveDetails, y \in ResolveDetails}

\* mutations without a document, with d1, and with d1 and d2
ResolveMutations ==
    {<<Mutation(<<Booking("a2", <<"-", "2">>)>>, << >>)>>,
     <<Mutation(<< >>, <<Payment("Document", "d1", <<"1">>, "bank")>>)>>,
     <<Mutation(<< >>, <<Payment("Document", "d1", <<"1">>, "bank")>>),
       Mutation(<< >>, <<Payment("Document", "d2", <<"1">>, "bank")>>)>>}

InitResolve ==
    /\ pc = "collect"
    /\ revenueArg = << >>
    /\ monthStart = Midnight(1)
    /\ monthEnd = Midnight(1)
    /\ calls = <<Call("ledger_accounts", << >>), Call("financial_mutations", <<1, 1>>)>>
    /\ accounts = StdTable
    /\ accountMap = BuildAccountMap(accounts)
    /\ allMutations \in ResolveMutations
    /\ currentStart = Midnight(2)
    /\ chunkNum = 2
    /\ omzetAccountID = FindOmzetID(accounts)
    /\ uniqueDocIDs = {}
    /\ docIDs = << >>
    /\ documentCache = EmptyMap
    /\ output = {}
    /\ NotCategorized /\ NotRolledUp /\ NotBudgeted

NextResolve ==
    \/ CollectDocIDs
    \/ \E docs \in ResolveAnswers : FetchPurchaseOK(docs)
    \/ FetchPurchaseFail
    \/ \E docs \in ResolveAnswers : FetchReceiptsOK(docs)
    \/ FetchReceiptsFail

SpecResolve == InitResolve /\ [][NextResolve]_vars

\* the IDs of the documents in docs
ReturnedIDs(docs) == {docs[i].ID : i \in DOMAIN docs}

\* the line items of the document id in docs
ReturnedDetails(docs, id) ==
    docs[CHOOSE i \in DOMAIN docs : docs[i].ID = id].Details

\* the line items the cache gives for id: none when id is not in it
Lookup(id) == IF id \in DOMAIN documentCache THEN documentCache[id] ELSE << >>

\* C17 as claimed: after both fetches the cache gives, for a document that
\* either collection returned, the line items of the receipts' entry when
\* the receipts returned it, whatever they are, and else those of the
\* purchase invoices' entry; it holds no other document.
C17_LaterFetchWins ==
    (pc = "categorize" /\ Len(DocumentCalls) = 2) =>
        LET purchase == DocumentCalls[1].res
            receipts == DocumentCalls[2].res
        IN  /\ DOMAIN documentCache \subseteq
                   ReturnedIDs(purchase) \cup ReturnedIDs(receipts)
            /\ \A id \in ReturnedIDs(purchase) \cup ReturnedIDs(receipts) :
                   Lookup(id) =
                       IF id \in ReturnedIDs(receipts)
                         THEN ReturnedDetails(receipts, id)
                         ELSE ReturnedDetails(purchase, id)

\* the slices of the pie chart that are root categories
RootSlices ==
    SelectSeq(pieValues,
              LAMBDA v : v.Label \notin {"Remaining Budget", "Over Budget"})

\* C18 as claimed: the root totals are printed, and passed to the pie
\* chart, from the largest absolute amount to the smallest.
C18_RootTotalsSorted ==
    /\ \A i \in 1 .. (Len(printedRoots) - 1) :
          Abs(printedRoots[i][2]) >= Abs(printedRoots[i + 1][2])
    /\ \A i \in 1 .. (Len(RootSlices) - 1) :
          Abs(RootSlices[i].Value[1]) * RootSlices[i + 1].Value[2]
              >= Abs(RootSlices[i + 1].Value[1]) * RootSlices[i].Value[2]

\* the place of a call in the order of the run
CallRank(c) ==
    CASE c.op = "ledger_accounts" -> 1
      [] c.op = "financial_mutations" -> 2
      [] c.op = "documents" -> 3

\* C19: the calls of a run are the fetch of the ledger accounts, then the
\* chunks in increasing order of date, then the purchase invoices, then
\* the receipts: the documents are called for only after the last chunk,
\* and no call is made twice.
C19_CallOrder ==
    /\ calls # << >> => calls[1].op = "ledger_accounts"
    /\ \A i, j \in DOMAIN calls :
          i < j =>
            /\ CallRank(calls[i]) <= CallRank(calls[j])
            /\ calls[j].op # "ledger_accounts"
            /\ <<calls[i].op, calls[i].arg>> # <<calls[j].op, calls[j].arg>>
    /\ \A i \in 1 .. (Len(ChunkCalls) - 1) :
          /\ ChunkCalls[i].arg[1] <= ChunkCalls[i].arg[2]
          /\ ChunkCalls[i].arg[2] < ChunkCalls[i + 1].arg[1]
    /\ \E n \in 0 .. 2 :
          CollectionsCalled = SubSeq(<<"purchase_invoices", "receipts">>, 1, n)
    /\ DocumentCalls # << >> =>
          /\ ChunkCalls # << >>
          /\ ~ChunkCalls[Len(ChunkCalls)].err
          /\ ChunkCalls[Len(ChunkCalls)].arg[2] = FormatDate(monthEnd)

\* the ledger accounts, two chunks, the purchase invoices and the receipts
C19_Witness ==
    /\ Len(calls) = 5
    /\ [i \in 1 .. 5 |-> calls[i].op] =
          <<"ledger_accounts", "financial_mutations", "financial_mutations",
            "documents", "documents">>
    /\ calls[2].arg = <<1, 7>>
    /\ calls[3].arg = <<8, 8>>
    /\ pc = "categorize"

\* C20 as claimed: the fetch of a chunk is never the step that directly
\* follows the return of the fetch of the chunk before it: a delay step
\* lies between them.
C20_InterChunkDelay ==
    [][(/\ calls # << >>
        /\ calls[Len(calls)].op = "financial_mutations"
        /\ Len(calls') > Len(calls)) =>
          calls'[Len(calls')].op # "financial_mutations"]_vars

(***************************************************************************)
(* Payments of the other types (lines 909-913).                            *)
(***************************************************************************)
\* the payment at hand is neither of a sales invoice nor of a document
AtOtherPayment ==
    AtPayment /\ CurPayment.InvoiceType \notin {"SalesInvoice", "Document"}

\* C21: a payment whose type is neither "SalesInvoice" nor "Document" adds
\* its amount to the total of its own ledger account when that ID is not
\* empty and changes no total when it is empty; no other total changes, so
\* the revenue account is touched only when it is the payment's own account,
\* and the document cache stays as it is.
C21_OtherKindPayment ==
    [][AtOtherPayment =>
          LET id == CurPayment.LedgerAccountID
              amount == Sscanf(CurPayment.Price)
          IN  /\ documentCache' = documentCache
              /\ IF id = ""
                   THEN totals' = totals
                   ELSE /\ DOMAIN totals' = DOMAIN totals \cup {id}
                        /\ \A k \in DOMAIN totals' :
                              totals'[k] = MapGet(totals, k)
                                             + (IF k = id THEN amount ELSE 0)
              /\ id # omzetAccountID =>
                    MapGet(totals', omzetAccountID) = MapGet(totals, omzetAccountID)
              /\ itemIdx' = itemIdx + 1]_vars

\* a booking of -2 on a2, a payment of a document that is not cached, a
\* payment of 1 of another type on a2 and one with no account: a2 holds -1
\* and nothing else has a total
C21_Witness ==
    /\ pc = "categorize"
    /\ Len(allMutations) = 1
    /\ Len(allMutations[1].Payments) = 3
    /\ allMutations[1].Payments[2].InvoiceType = "ExternalSalesInvoice"
    /\ allMutations[1].Payments[2].LedgerAccountID = "a2"
    /\ allMutations[1].Payments[3].InvoiceType = "ExternalSalesInvoice"
    /\ allMutations[1].Payments[3].LedgerAccountID = ""
    /\ omzetAccountID = "a1"
    /\ mutIdx = 1 /\ itemIdx = 5
    /\ documentCache = EmptyMap
    /\ totals = ("a2" :> (0 - 1))

(***************************************************************************)
(* The collection of the document IDs (lines 829-845).                     *)
(***************************************************************************)
\* the places of the payments of type "Document"
DocumentPlaces ==
    {p \in PaymentPlaces : allMutations[p[1]].Payments[p[2]].InvoiceType = "Document"}

\* the collection of the document IDs is over
Collected == pc \notin {"accounts", "chunks", "omzet", "collect", "exit"}

\* C22: once the IDs are collected, the slice handed to both batch fetches
\* holds the InvoiceID of every payment of type "Document" of every fetched
\* mutation, holds nothing else (so no ID that only a payment of type
\* "SalesInvoice" or of another type carries), and holds no ID twice.
C22_DocumentIDsCollected ==
    Collected =>
       /\ \A p \in DocumentPlaces :
             \E i \in DOMAIN docIDs :
                docIDs[i] = allMutations[p[1]].Payments[p[2]].InvoiceID
       /\ \A i \in DOMAIN docIDs :
             \E p \in DocumentPlaces :
                docIDs[i] = allMutations[p[1]].Payments[p[2]].InvoiceID
       /\ \A i, j \in DOMAIN docIDs : docIDs[i] = docIDs[j] => i = j
       /\ \A c \in DOMAIN DocumentCalls : DocumentCalls[c].arg[2] = docIDs

\* two payments of type "Document" refer to d1, next to payments of another
\* type with IDs of their own; both fetches were sent the one ID d1
C22_Witness ==
    /\ pc = "categorize"
    /\ Cardinality(DocumentPlaces) = 2
    /\ Cardinality(PaymentPlaces) = 4
    /\ docIDs = <<"d1">>
    /\ Len(DocumentCalls) = 2
    /\ DocumentCalls[1].arg = <<"purchase_invoices", <<"d1">>>>
    /\ DocumentCalls[2].arg = <<"receipts", <<"d1">>>>

(***************************************************************************)
(* The end of the parent walk (lines 943-957).                             *)
(***************************************************************************)
\* the IDs of the account table
AccountIDs == {accounts[i].ID : i \in DOMAIN accounts}

\* the walk is at an account with no parent ID, an empty one, or one that
\* names no account of the table
AtChainEnd ==
    /\ pc = "walk"
    /\ \/ rootAcc.ParentID = << >>
       \/ rootAcc.ParentID[1] = ""
       \/ rootAcc.ParentID[1] \notin AccountIDs

\* C23: when the walk is at an account whose parent ID is set but names no
\* account of the table, or at an account with no parent ID or an empty one,
\* the walk stops there: the total of the account the walk started from is
\* added to the root total under the name of the account the walk is at, no
\* other root total changes, and the range goes on with the next key.
C23_UnresolvableParentIsRoot ==
    [][AtChainEnd =>
          /\ pc' = "range"
          /\ DOMAIN rootTotals' = DOMAIN rootTotals \cup {rootAcc.Name}
          /\ \A name \in DOMAIN rootTotals' :
                rootTotals'[name] =
                   MapGet(rootTotals, name)
                     + (IF name = rootAcc.Name THEN totals[curID] ELSE 0)
          /\ pending' = pending \ {curID}]_vars

\* Auto (a3) is under a2, named Woning, whose parent "gone" is no account:
\* Auto's -4 is under Woning
C23_Witness ==
    /\ pc = "range"
    /\ pending = {}
    /\ accounts[3].AccountType = "equity"
    /\ accounts[3].ParentID = <<"a2">>
    /\ accounts[2].Name = "Woning"
    /\ accounts[2].ParentID = <<"gone">>
    /\ DOMAIN totals = {"a3"}
    /\ rootTotals = ("Woning" :> (0 - 4))

(***************************************************************************)
(* What the roll-up conserves (lines 932-965).                             *)
(***************************************************************************)
\* the keys of totals that are the ID of an account of type equity
EquityIDs ==
    {id \in DOMAIN totals :
        \E i \in DOMAIN accounts :
           accounts[i].ID = id /\ accounts[i].AccountType = "equity"}

\* C24: with an acyclic account table, once the roll-up is over the root
\* totals sum to the family expenses that the budget uses, and both are
\* the sum of the totals of exactly the keys that are the ID of an account
\* of type equity: the totals of accounts of other types and of keys that
\* are no account are not in it.
C24_RollupConservation ==
    (pc = "sums" /\ Acyclic) =>
        /\ MapSum(rootTotals) = totalFamilyExpenses
        /\ totalFamilyExpenses = SumOver(totals, EquityIDs)

\* a1 and a3 are equity, a2 is expenses and the parent of a3, zz is no
\* account: of the totals -1, -2, -4 and -8 the roots hold -1 and -4
C24_Witness ==
    /\ pc = "sums"
    /\ Acyclic
    /\ DOMAIN totals = {"a1", "a2", "a3", "zz"}
    /\ accounts[1].AccountType = "equity"
    /\ accounts[2].AccountType = "expenses"
    /\ accounts[3].AccountType = "equity"
    /\ accounts[3].ParentID = <<"a2">>
    /\ totalFamilyExpenses = 0 - 5
    /\ MapSum(rootTotals) = 0 - 5

(***************************************************************************)
(* The monthly summary on its own: the run from the grouping by account    *)
(* type to the budget, without a -revenue argument, with revenue and       *)
(* expenses accounts of which two may share a name.                        *)
(***************************************************************************)
SummaryTables ==
    {<<LedgerAccount("a1", "Omzet", "revenue", << >>),
       LedgerAccount("a2", n2, t2, << >>),
       LedgerAccount("a3", "Kantoor", "expenses", << >>)>> :
        n2 \in {"Omzet", "Kantoor"}, t2 \in {"revenue", "expenses"}}

\* the keys a total may be under ("zz" is no ledger account) and the amount
\* of each
SummaryKeys == <<"a1", "a2", "a3", "zz">>

SummaryAmount ==
    ("a1" :> 8) @@ ("a2" :> 2) @@ ("a3" :> (0 - 4)) @@ ("zz" :> (0 - 1))

SummaryTotals ==
    {[k \in keys |-> SummaryAmount[k]] :
        keys \in SUBSET {SummaryKeys[i] : i \in DOMAIN SummaryKeys}}

InitSummary ==
    /\ pc = "group"
    /\ revenueArg = << >>
    /\ \E table \in SummaryTables, t \in SummaryTotals :
          Aggregated(table, t, SummaryKeys)
    /\ output = {}
    /\ NotRolledUp /\ NotBudgeted

NextSummary == GroupByType \/ RollupSkip \/ Sums \/ ApplyOverride \/ CalculateBudget

SpecSummary == InitSummary /\ [][NextSummary]_vars

\* the keys of totals that are the ID of an account of the type
IDsOfType(type) ==
    {id \in DOMAIN totals :
        \E i \in DOMAIN accounts :
           accounts[i].ID = id /\ accounts[i].AccountType = type}

\* the sums of the summary are taken
SumsTaken == pc \in {"override", "budget"} \/ phase = "chart"

\* C25: without a -revenue argument, the revenue and the business expenses
\* that the budget is calculated from are the sums of the totals of all
\* accounts of type revenue, respectively expenses, that have a total, also
\* when two accounts of one type share a name.
C25_PerKindTotals ==
    SumsTaken =>
        /\ totalRevenue = SumOver(totals, IDsOfType("revenue"))
        /\ totalBusinessExpenses = SumOver(totals, IDsOfType("expenses"))

=============================================================================
